---- MODULE Spec2Model ----
(***************************************************************************)
(* Model of the dashboards of Data-Visualization-Coursework.               *)
(*                                                                         *)
(* Lab 6/crypto_dashboard.py: fetch_crypto_data builds the indicator table *)
(* (moving averages, percent change, Bollinger bands, RSI, MACD,           *)
(* cumulative return) from the market_chart response.                      *)
(*                                                                         *)
(* Numbers.  The code computes in float64.  The model keeps the float      *)
(* special values (NaN, +inf, -inf) and computes every finite value as an  *)
(* exact rational, so rounding error is abstracted away and a finite       *)
(* result is the real number the float approximates.  The sign of a zero   *)
(* is not kept.                                                            *)
(*                                                                         *)
(* The same file's toggle_collapse callback opens and closes the side      *)
(* panel of the layout, and fetch_global_data reads the market overview.   *)
(*                                                                         *)
(* Lab 5/dashboard_B22AI066.py: eda_plot draws the selected columns of the *)
(* uploaded file, told apart by column_type.                               *)
(*                                                                         *)
(* Lab 5/tut_app_B22AI066.py: sidebar_filtered_data filters the mpg        *)
(* dataset by the slider's range and the checked origins.                  *)
(***************************************************************************)
EXTENDS Integers, Sequences, FiniteSets, TLC

VARIABLES
    data,       \* the decoded JSON body of the market_chart response
    pc,         \* "request" before fetch_crypto_data has run, "done" after
    df,         \* the first frame fetch_crypto_data returned (the indicators)
    df_volume,  \* the second frame it returned (the volumes)
    raised,     \* the exception the call ended with, or "none"
    calls,      \* history: the calls of fetch_crypto_data made so far, each with
                \* the body it read, the body as the call left it and its result
    n_clicks,   \* the n_clicks property of the "toggle-button" component
    is_open,    \* the is_open property of the "collapse" component
    pending,    \* the invocations of toggle_collapse not yet run, oldest first,
                \* each the n_clicks value that triggered it
    response,   \* r, the response requests.get gave fetch_global_data
    global_data, \* how the call of fetch_global_data ended, and with what
    uploaded,   \* df() of the Lab 5 dashboard: the frame read from the uploaded file
    eda_cols,   \* input.eda_cols(): the selected column names, in order
    eda_out,    \* what eda_plot last returned
    mpg_data,   \* data of tut_app, the module-level mpg dataset: its rows
    mpg_range,  \* input.mpg_range(): the two handles of the slider
    origins,    \* input.origins(): the checked origins
    sidebar     \* the value the reactive Calc sidebar_filtered_data holds

cryptoVars == <<data, pc, df, df_volume, raised, calls>>

panelVars == <<n_clicks, is_open, pending>>

globalVars == <<response, global_data>>

edaVars == <<uploaded, eda_cols, eda_out>>

sidebarVars == <<mpg_data, mpg_range, origins, sidebar>>

vars == <<cryptoVars, panelVars, globalVars, edaVars, sidebarVars>>

\* the variables an action of one part of the program leaves alone
notCrypto == <<panelVars, globalVars, edaVars, sidebarVars>>

notPanel == <<cryptoVars, globalVars, edaVars, sidebarVars>>

notGlobal == <<cryptoVars, panelVars, edaVars, sidebarVars>>

notEda == <<cryptoVars, panelVars, globalVars, sidebarVars>>

notSidebar == <<cryptoVars, panelVars, globalVars, edaVars>>

(***************************************************************************)
(* Floats: [n, d] is n/d in lowest terms with d > 0; d = 0 is a special    *)
(* value: 0/0 is NaN, 1/0 is +inf, -1/0 is -inf.                           *)
(***************************************************************************)
Abs(x) == IF x < 0 THEN -x ELSE x

Sgn(x) == IF x < 0 THEN -1 ELSE IF x > 0 THEN 1 ELSE 0

RECURSIVE Gcd(_, _)
Gcd(a, b) == IF b = 0 THEN a ELSE Gcd(b, a % b)

Norm(n, d) ==
    IF d = 0 THEN [n |-> Sgn(n), d |-> 0]
    ELSE LET g == Gcd(Abs(n), Abs(d))
         IN  [n |-> (Sgn(d) * n) \div g, d |-> Abs(d) \div g]

F(k) == [n |-> k, d |-> 1]

NaN == [n |-> 0, d |-> 0]

PosInf == [n |-> 1, d |-> 0]

NegInf == [n |-> -1, d |-> 0]

IsNaN(x) == x.d = 0 /\ x.n = 0

IsInf(x) == x.d = 0 /\ x.n # 0

IsFinite(x) == x.d > 0

FNeg(x) == [n |-> -x.n, d |-> x.d]

FAdd(x, y) ==
    IF IsNaN(x) \/ IsNaN(y) THEN NaN
    ELSE IF IsInf(x) /\ IsInf(y) THEN (IF x.n = y.n THEN x ELSE NaN)
    ELSE IF IsInf(x) THEN x
    ELSE IF IsInf(y) THEN y
    ELSE Norm(x.n * y.d + y.n * x.d, x.d * y.d)

FSub(x, y) == FAdd(x, FNeg(y))

FMul(x, y) ==
    IF IsNaN(x) \/ IsNaN(y) THEN NaN
    ELSE IF IsInf(x) \/ IsInf(y)
         THEN (IF x.n = 0 \/ y.n = 0 THEN NaN ELSE Norm(Sgn(x.n) * Sgn(y.n), 0))
    ELSE Norm(x.n * y.n, x.d * y.d)

FDiv(x, y) ==
    IF IsNaN(x) \/ IsNaN(y) THEN NaN
    ELSE IF IsInf(x) THEN (IF IsInf(y) THEN NaN
                           ELSE IF y.n < 0 THEN FNeg(x) ELSE x)
    ELSE IF IsInf(y) THEN F(0)
    ELSE IF y.n = 0 THEN (IF x.n = 0 THEN NaN ELSE Norm(Sgn(x.n), 0))
    ELSE Norm(x.n * y.d, x.d * y.n)

\* x > y and x < y as float comparisons: false when either side is NaN.
FGt(x, y) ==
    /\ ~IsNaN(x)
    /\ ~IsNaN(y)
    /\ IF IsInf(x) \/ IsInf(y)
       THEN (x = PosInf /\ y # PosInf) \/ (y = NegInf /\ x # NegInf)
       ELSE x.n * y.d > y.n * x.d

FLt(x, y) == FGt(y, x)

FLe(x, y) == ~IsNaN(x) /\ ~IsNaN(y) /\ ~FGt(x, y)

(***************************************************************************)
(* Exponential averages need exact numbers far beyond the 32-bit integers  *)
(* of TLC: after i rows an adjust=False average with span 12 has the       *)
(* denominator 13^i.                                                       *)
(* They are kept as num / EB^exp, where num is a                           *)
(* signed integer of any size (sign s, magnitude m as base-Limb digits,    *)
(* least significant first, no leading zero digit) and EB is a common      *)
(* multiple of the denominators 13, 27 and 10 of the three smoothing        *)
(* factors.                                                                *)
(***************************************************************************)
Limb == 100 * 1000

Hd(a) == IF a = <<>> THEN 0 ELSE Head(a)

Tl(a) == IF a = <<>> THEN <<>> ELSE Tail(a)

RECURSIVE MagOf(_)
MagOf(k) == IF k = 0 THEN <<>> ELSE <<k % Limb>> \o MagOf(k \div Limb)

RECURSIVE MagAdd(_, _, _)
MagAdd(a, b, c) ==
    IF a = <<>> /\ b = <<>> THEN (IF c = 0 THEN <<>> ELSE <<c>>)
    ELSE LET x == Hd(a) + Hd(b) + c
         IN  <<x % Limb>> \o MagAdd(Tl(a), Tl(b), x \div Limb)

\* a - b - c for a >= b + c; the result may carry leading zero digits.
RECURSIVE MagSub(_, _, _)
MagSub(a, b, c) ==
    IF a = <<>> THEN <<>>
    ELSE LET x == Hd(a) - Hd(b) - c
         IN  <<x % Limb>> \o MagSub(Tl(a), Tl(b), IF x < 0 THEN 1 ELSE 0)

RECURSIVE Trim(_)
Trim(m) ==
    IF m = <<>> THEN <<>>
    ELSE IF m[Len(m)] = 0 THEN Trim(SubSeq(m, 1, Len(m) - 1))
    ELSE m

RECURSIVE MagCmpAt(_, _, _)
MagCmpAt(a, b, i) ==
    IF i = 0 THEN 0
    ELSE IF a[i] # b[i] THEN Sgn(a[i] - b[i])
    ELSE MagCmpAt(a, b, i - 1)

MagCmp(a, b) ==
    IF Len(a) # Len(b) THEN Sgn(Len(a) - Len(b)) ELSE MagCmpAt(a, b, Len(a))

\* a * k + c for 0 < k < 20000
RECURSIVE MagMul(_, _, _)
MagMul(a, k, c) ==
    IF a = <<>> THEN (IF c = 0 THEN <<>> ELSE <<c>>)
    ELSE LET x == Head(a) * k + c
         IN  <<x % Limb>> \o MagMul(Tail(a), k, x \div Limb)

BigZero == [s |-> 0, m |-> <<>>]

BigOf(k) == [s |-> Sgn(k), m |-> MagOf(Abs(k))]

BigNeg(a) == [s |-> -a.s, m |-> a.m]

BigAdd(a, b) ==
    IF a.s = 0 THEN b
    ELSE IF b.s = 0 THEN a
    ELSE IF a.s = b.s THEN [s |-> a.s, m |-> MagAdd(a.m, b.m, 0)]
    ELSE LET c == MagCmp(a.m, b.m)
         IN  IF c = 0 THEN BigZero
             ELSE IF c > 0 THEN [s |-> a.s, m |-> Trim(MagSub(a.m, b.m, 0))]
             ELSE [s |-> b.s, m |-> Trim(MagSub(b.m, a.m, 0))]

BigMul(a, k) ==
    IF k = 0 \/ a.s = 0 THEN BigZero
    ELSE [s |-> a.s * Sgn(k), m |-> MagMul(a.m, Abs(k), 0)]

EB == 13 * 27 * 10

\* exp = -1 marks the missing value (NaN)
ScNaN == [num |-> BigZero, exp |-> -1]

ScIsNaN(x) == x.exp < 0

ScOf(k) == [num |-> BigOf(k), exp |-> 0]

RECURSIVE BigRaise(_, _)
BigRaise(a, k) == IF k = 0 THEN a ELSE BigRaise(BigMul(a, EB), k - 1)

\* the same number over the denominator EB^e, for e >= x.exp
ScRaise(x, e) == [num |-> BigRaise(x.num, e - x.exp), exp |-> e]

ScAdd(x, y) ==
    IF ScIsNaN(x) \/ ScIsNaN(y) THEN ScNaN
    ELSE LET e == IF x.exp > y.exp THEN x.exp ELSE y.exp
         IN  [num |-> BigAdd(ScRaise(x, e).num, ScRaise(y, e).num), exp |-> e]

ScNeg(x) == [num |-> BigNeg(x.num), exp |-> x.exp]

ScSub(x, y) == ScAdd(x, ScNeg(y))

\* x * k for an integer k
ScMulInt(x, k) == [num |-> BigMul(x.num, k), exp |-> x.exp]

\* x * n / d for a divisor d of EB
ScMulRat(x, n, d) ==
    IF ScIsNaN(x) THEN ScNaN
    ELSE [num |-> BigMul(x.num, n * (EB \div d)), exp |-> x.exp + 1]

ScIsZero(x) == ~ScIsNaN(x) /\ x.num.s = 0

\* equality of two numbers; like the float ==, false when either is NaN
ScEq(x, y) == ScIsZero(ScSub(x, y))

(***************************************************************************)
(* Values a + c * sqrt(r), for rolling(20).std() and the two bands built   *)
(* from it.  The square root is not evaluated; c = 0 and r = 0 when the    *)
(* value is rational, and a = NaN is the missing value.                    *)
(***************************************************************************)
Surd(a, c, r) ==
    IF IsNaN(a) \/ IsNaN(c) \/ IsNaN(r) THEN [a |-> NaN, c |-> F(0), r |-> F(0)]
    ELSE IF c.n = 0 \/ r.n = 0 THEN [a |-> a, c |-> F(0), r |-> F(0)]
    ELSE [a |-> a, c |-> c, r |-> r]

Sqrt(v) == Surd(F(0), F(1), v)

\* x + k * s and x - k * s for a float x, a float k and a surd s
FAddSurd(x, k, s) == Surd(FAdd(x, FMul(k, s.a)), FMul(k, s.c), s.r)

FSubSurd(x, k, s) == Surd(FSub(x, FMul(k, s.a)), FNeg(FMul(k, s.c)), s.r)

(***************************************************************************)
(* pandas Series operations, on columns held as sequences (row i of the    *)
(* frame, counted from 0, is element i + 1).                               *)
(***************************************************************************)
RECURSIVE FSum(_, _, _)
FSum(xs, lo, hi) == IF lo > hi THEN F(0) ELSE FAdd(FSum(xs, lo, hi - 1), xs[hi])

WindowFull(xs, w, i) == i >= w /\ \A j \in (i - w + 1)..i : ~IsNaN(xs[j])

\* rolling(w, min_periods=1).mean(): the mean of the rows there are
RollingMeanMinPeriods1(xs, w) ==
    [i \in 1..Len(xs) |->
        LET lo == IF i >= w THEN i - w + 1 ELSE 1
        IN  IF \E j \in lo..i : IsNaN(xs[j]) THEN NaN
            ELSE FDiv(FSum(xs, lo, i), F(i - lo + 1))]

\* Series.rolling(w).mean(): min_periods defaults to the window length
RollingMean(xs, w) ==
    [i \in 1..Len(xs) |->
        IF WindowFull(xs, w, i) THEN FDiv(FSum(xs, i - w + 1, i), F(w)) ELSE NaN]

RECURSIVE FSumSq(_, _, _)
FSumSq(xs, lo, hi) ==
    IF lo > hi THEN F(0) ELSE FAdd(FSumSq(xs, lo, hi - 1), FMul(xs[hi], xs[hi]))

\* Series.rolling(w).std(): sample standard deviation (ddof = 1); the sum of
\* squared deviations from the window mean is sum(x^2) - sum(x)^2 / w
RollingStd(xs, w) ==
    [i \in 1..Len(xs) |->
        IF WindowFull(xs, w, i)
        THEN LET sum == FSum(xs, i - w + 1, i)
                 ssd == FSub(FSumSq(xs, i - w + 1, i), FDiv(FMul(sum, sum), F(w)))
             IN  Sqrt(FDiv(ssd, F(w - 1)))
        ELSE Sqrt(NaN)]

\* data / data.shift(1): the growth factor, the 1 not subtracted
PctChangeRatio(xs) ==
    [i \in 1..Len(xs) |-> IF i = 1 THEN NaN ELSE FDiv(xs[i], xs[i - 1])]

\* Series.pct_change(): data / data.shift(1) - 1
PctChange(xs) ==
    [i \in 1..Len(xs) |-> IF i = 1 THEN NaN ELSE FSub(FDiv(xs[i], xs[i - 1]), F(1))]

\* Series.diff()
Diff(xs) == [i \in 1..Len(xs) |-> IF i = 1 THEN NaN ELSE FSub(xs[i], xs[i - 1])]

RECURSIVE RunProd(_)
RunProd(xs) ==
    IF xs = <<>> THEN <<>>
    ELSE LET n    == Len(xs)
             init == RunProd(SubSeq(xs, 1, n - 1))
         IN  Append(init, IF n = 1 THEN xs[1] ELSE FMul(init[n - 1], xs[n]))

\* cumprod(skipna=False): the first NaN makes every later row NaN
CumProdKeepNaN(xs) == RunProd(xs)

\* Series.cumprod(): skipna, so a NaN row counts as 1 in the running product
\* and is NaN in the result
CumProd(xs) ==
    LET prod == RunProd([i \in 1..Len(xs) |-> IF IsNaN(xs[i]) THEN F(1) ELSE xs[i]])
    IN  [i \in 1..Len(xs) |-> IF IsNaN(xs[i]) THEN NaN ELSE prod[i]]

\* ewm(com=span, adjust=False).mean(): alpha = 1/(1+span)
RECURSIVE EwmCom(_, _)
EwmCom(xs, span) ==
    IF Len(xs) <= 1 THEN xs
    ELSE LET n    == Len(xs)
             init == EwmCom(SubSeq(xs, 1, n - 1), span)
         IN  Append(init, ScAdd(ScMulRat(xs[n], 1, span + 1),
                                ScMulRat(init[n - 1], span, span + 1)))

\* Series.ewm(span=span, adjust=False).mean() of a column of scaled numbers:
\* y[0] = x[0], y[i] = alpha * x[i] + (1 - alpha) * y[i-1], alpha = 2/(span+1)
RECURSIVE Ewm(_, _)
Ewm(xs, span) ==
    IF Len(xs) <= 1 THEN xs
    ELSE LET n    == Len(xs)
             init == Ewm(SubSeq(xs, 1, n - 1), span)
         IN  Append(init, ScAdd(ScMulRat(xs[n], 2, span + 1),
                                ScMulRat(init[n - 1], span - 1, span + 1)))

(***************************************************************************)
(* Lab 6/crypto_dashboard.py, fetch_crypto_data.                           *)
(* data is the decoded JSON body: a function from its keys to their        *)
(* values; 'prices' and 'total_volumes' are lists of [timestamp, value]    *)
(* pairs.  A frame is a function from its column names to columns of equal *)
(* length; pd.DataFrame() is the frame with no column.                     *)
(***************************************************************************)
EmptyFrame == <<>>

\* len(frame)
NRows(frame) ==
    IF DOMAIN frame = {} THEN 0 ELSE Len(frame[CHOOSE c \in DOMAIN frame : TRUE])

RECURSIVE DropDuplicateTimestamps(_)
DropDuplicateTimestamps(pairs) ==
    IF pairs = <<>> THEN <<>>
    ELSE LET n    == Len(pairs)
             init == DropDuplicateTimestamps(SubSeq(pairs, 1, n - 1))
         IN  IF \E j \in 1..(n - 1) : pairs[j][1] = pairs[n][1] THEN init
             ELSE Append(init, pairs[n])

\* DataFrame followed by drop_duplicates('timestamp')
DataFrameDeduplicated(pairs, name) ==
    LET kept == DropDuplicateTimestamps(pairs)
    IN  [c \in {"timestamp", name} |->
            [i \in 1..Len(kept) |-> IF c = "timestamp" THEN kept[i][1] ELSE kept[i][2]]]

\* pd.DataFrame(pairs, columns=['timestamp', name]): one row per pair, in order
DataFrame(pairs, name) ==
    [c \in {"timestamp", name} |->
        [i \in 1..Len(pairs) |-> IF c = "timestamp" THEN pairs[i][1] ELSE pairs[i][2]]]

\* pd.to_datetime(column, unit='ms'): datetime64[ns], nanoseconds since the epoch
ToDatetime(column) == [i \in 1..Len(column) |-> column[i] * 1000000]

\* the value column as float64
AsFloat(column) == [i \in 1..Len(column) |-> F(column[i])]

\* the test with 'and' for 'or': only a body lacking both keys is turned away
MissingBothKeys(d) == "prices" \notin DOMAIN d /\ "total_volumes" \notin DOMAIN d

MissingKeys(d) == "prices" \notin DOMAIN d \/ "total_volumes" \notin DOMAIN d

Window7 == 7

Window30 == 30

Window20 == 20

BandWidth == 2

WindowRSI == 14

Span12 == 12

Span26 == 26

Span9 == 9

UpperBand(ma, std) == [i \in 1..Len(ma) |-> FAddSurd(ma[i], F(BandWidth), std[i])]

\* the lower band one standard deviation below the average
LowerBandOneSigma(ma, std) == [i \in 1..Len(ma) |-> FSubSurd(ma[i], F(1), std[i])]

LowerBand(ma, std) == [i \in 1..Len(ma) |-> FSubSurd(ma[i], F(BandWidth), std[i])]

\* the two averages subtracted the wrong way round
MACDSwapped(ema12, ema26) == [i \in 1..Len(ema12) |-> ScSub(ema26[i], ema12[i])]

\* df['12-day EMA'] - df['26-day EMA']
MACD(ema12, ema26) == [i \in 1..Len(ema12) |-> ScSub(ema12[i], ema26[i])]

\* df['MACD'] - df['Signal Line']
Histogram(macd, signal) == [i \in 1..Len(macd) |-> ScSub(macd[i], signal[i])]

\* delta.clip(lower=0): the NaN of row 0 stays NaN
GainClip(delta) ==
    [i \in 1..Len(delta) |->
        IF IsNaN(delta[i]) THEN NaN ELSE IF FGt(delta[i], F(0)) THEN delta[i] ELSE F(0)]

\* delta.where(delta > 0, 0): the NaN of row 0 fails the test and becomes 0
Gain(delta) ==
    [i \in 1..Len(delta) |-> IF FGt(delta[i], F(0)) THEN delta[i] ELSE F(0)]

\* delta.where(delta < 0, 0), the minus sign forgotten
LossNotNegated(delta) ==
    [i \in 1..Len(delta) |-> IF FLt(delta[i], F(0)) THEN delta[i] ELSE F(0)]

\* -delta.where(delta < 0, 0)
Loss(delta) ==
    [i \in 1..Len(delta) |-> FNeg(IF FLt(delta[i], F(0)) THEN delta[i] ELSE F(0))]

\* 100 - (100 / (1 + avg_gain / avg_loss)).  A zero average loss is a float
\* zero of either sign; the sign only decides between rs = +inf and -inf, and
\* 100 / (1 + rs) is a zero for both.
RSI(price) ==
    LET delta    == Diff(price)
        avg_gain == RollingMean(Gain(delta), WindowRSI)
        avg_loss == RollingMean(Loss(delta), WindowRSI)
        rs       == [i \in 1..Len(price) |-> FDiv(avg_gain[i], avg_loss[i])]
    IN  [i \in 1..Len(price) |-> FSub(F(100), FDiv(F(100), FAdd(F(1), rs[i])))]

\* (1 + daily).cumprod() - 1
CumulativeReturn(daily) ==
    LET cum == CumProd([i \in 1..Len(daily) |-> FAdd(F(1), daily[i])])
    IN  [i \in 1..Len(daily) |-> FSub(cum[i], F(1))]

\* the frame built from data['prices'], with every indicator column
Indicators(prices) ==
    LET frame  == DataFrame(prices, "price")
        price  == AsFloat(frame["price"])
        exact  == [i \in 1..Len(price) |-> ScOf(frame["price"][i])]
        ma20   == RollingMean(price, Window20)
        std    == RollingStd(price, Window20)
        ema12  == Ewm(exact, Span12)
        ema26  == Ewm(exact, Span26)
        macd   == MACD(ema12, ema26)
        signal == Ewm(macd, Span9)
        daily  == PctChange(price)
    IN  [c \in {"timestamp", "price", "7-day MA", "30-day MA", "Price Change %",
                "20-day MA", "Std Dev", "Upper Band", "Lower Band", "RSI",
                "12-day EMA", "26-day EMA", "MACD", "Signal Line",
                "MACD Histogram", "Daily Return", "Cumulative Return"} |->
          CASE c = "timestamp"         -> ToDatetime(frame["timestamp"])
            [] c = "price"             -> price
            [] c = "7-day MA"          -> RollingMean(price, Window7)
            [] c = "30-day MA"         -> RollingMean(price, Window30)
            [] c = "Price Change %"    ->
                 [i \in 1..Len(price) |-> FMul(PctChange(price)[i], F(100))]
            [] c = "20-day MA"         -> ma20
            [] c = "Std Dev"           -> std
            [] c = "Upper Band"        -> UpperBand(ma20, std)
            [] c = "Lower Band"        -> LowerBand(ma20, std)
            [] c = "RSI"               -> RSI(price)
            [] c = "12-day EMA"        -> ema12
            [] c = "26-day EMA"        -> ema26
            [] c = "MACD"              -> macd
            [] c = "Signal Line"       -> signal
            [] c = "MACD Histogram"    -> Histogram(macd, signal)
            [] c = "Daily Return"      -> daily
            [] c = "Cumulative Return" -> CumulativeReturn(daily)]

\* the volume frame kept between calls and extended by each call
VolumesAccumulated(volumes) ==
    LET frame == DataFrame(volumes, "volume")
        fresh == [c \in {"timestamp", "volume"} |->
                    IF c = "timestamp" THEN ToDatetime(frame["timestamp"])
                    ELSE AsFloat(frame["volume"])]
    IN  IF df_volume = EmptyFrame THEN fresh
        ELSE [c \in {"timestamp", "volume"} |-> df_volume[c] \o fresh[c]]

\* the frame built from data['total_volumes']
Volumes(volumes) ==
    LET frame == DataFrame(volumes, "volume")
    IN  [c \in {"timestamp", "volume"} |->
            IF c = "timestamp" THEN ToDatetime(frame["timestamp"])
            ELSE AsFloat(frame["volume"])]

\* requests.get(url).json() has put the body in data; the function returns
\* (df, df_volume), or raises at the first subscript of a key that is absent
fetch_crypto_data ==
    /\ pc = "request"
    /\ pc' = "done"
    /\ IF MissingKeys(data)
       THEN /\ df' = EmptyFrame
            /\ df_volume' = EmptyFrame
            /\ raised' = "none"
       ELSE IF "prices" \notin DOMAIN data \/ "total_volumes" \notin DOMAIN data
       THEN /\ raised' = "KeyError"
            /\ UNCHANGED <<df, df_volume>>
       ELSE /\ df' = Indicators(data["prices"])
            /\ df_volume' = Volumes(data["total_volumes"])
            /\ raised' = "none"
    /\ UNCHANGED data
    /\ calls' = Append(calls,
                    [input  |-> data,
                     after  |-> data',
                     output |-> IF raised' = "none" THEN <<df', df_volume'>>
                                ELSE <<raised'>>])
    /\ UNCHANGED notCrypto

(***************************************************************************)
(* The side panel.  app.layout creates the button with n_clicks = 0 and    *)
(* the collapse with is_open = True; Dash runs every callback once when    *)
(* the page loads, and again each time its Input changes.  An invocation   *)
(* gets the Input value that triggered it and the State as it is when the  *)
(* invocation runs; invocations run one at a time, oldest first.           *)
(***************************************************************************)
MaxClicks == 20

\* the properties app.layout gives the two components, and the invocation of
\* the page load
Layout ==
    /\ n_clicks = 0
    /\ is_open = TRUE
    /\ pending = <<0>>

\* the callback without its test of n_clicks
toggle_always(clicks, open) == ~open

\* def toggle_collapse(n_clicks, is_open): a zero n_clicks is falsy
toggle_collapse(clicks, open) == IF clicks # 0 THEN ~open ELSE open

\* the user clicks "Toggle Controls": the browser adds 1 to n_clicks, which
\* triggers the callback
click ==
    /\ n_clicks < MaxClicks
    /\ n_clicks' = n_clicks + 1
    /\ pending' = Append(pending, n_clicks + 1)
    /\ UNCHANGED is_open
    /\ UNCHANGED notPanel

\* Dash runs the oldest pending invocation and writes the value it returns to
\* the Output, collapse.is_open
run_toggle_collapse ==
    /\ pending # <<>>
    /\ is_open' = toggle_collapse(Head(pending), is_open)
    /\ pending' = Tail(pending)
    /\ UNCHANGED n_clicks
    /\ UNCHANGED notPanel

(***************************************************************************)
(* The market overview.  response is r, what requests.get gave: its status *)
(* code and its body, which is either not JSON at all or a JSON object,    *)
(* an object being a function from its keys to its values.                 *)
(***************************************************************************)
Statuses == {200, 404, 429, 500}

\* what a key of the "data" object can hold: nothing (the key is absent), an
\* empty object, an object without the leaf that is read, or one with it
FieldKinds == {"absent", "empty", "other", "full"}

Field(kind, leaf, v) ==
    CASE kind = "full"  -> [k \in {leaf} |-> v]
      [] kind = "other" -> [k \in {"eur"} |-> v]
      [] OTHER          -> <<>>

\* the leaves fetch_global_data reads, and the value the model gives each
Leaves ==
    [k \in {"total_market_cap", "total_volume", "market_cap_percentage"} |->
        IF k = "market_cap_percentage" THEN <<"btc", 50>>
        ELSE IF k = "total_volume" THEN <<"usd", 2>> ELSE <<"usd", 3>>]

DataObject(kinds) ==
    [k \in {x \in DOMAIN kinds : kinds[x] # "absent"} |->
        Field(kinds[k], Leaves[k][1], Leaves[k][2])]

Bodies ==
    {[valid |-> TRUE, obj |-> [k \in {"data"} |-> DataObject(kinds)]] :
        kinds \in [DOMAIN Leaves -> FieldKinds]}
    \cup {[valid |-> TRUE, obj |-> <<>>],
          [valid |-> TRUE, obj |-> [k \in {"status"} |-> <<>>]],
          [valid |-> FALSE, obj |-> <<>>]}

GlobalResponses == [status_code : Statuses, body : Bodies]

Pending == [state |-> "pending", value |-> <<>>]

Returns(value) == [state |-> "returned", value |-> value]

Raises(exception) == [state |-> "raised", value |-> <<exception>>]

\* d[k][leaf], or the KeyError of the first subscript whose key is absent
Subscript(d, k, leaf) ==
    IF k \in DOMAIN d /\ leaf \in DOMAIN d[k] THEN Returns(d[k][leaf])
    ELSE Raises("KeyError")

\* the body of fetch_global_data on the response resp
GlobalData(resp) ==
    IF resp.status_code # 200 THEN Returns(<<0, 0, 0>>)
    ELSE IF ~resp.body.valid THEN Raises("JSONDecodeError")
    ELSE IF "data" \notin DOMAIN resp.body.obj THEN Returns(<<0, 0, 0>>)
    ELSE LET d                == resp.body.obj["data"]
             total_market_cap == Subscript(d, "total_market_cap", "usd")
             total_24h_volume == Subscript(d, "total_volume", "usd")
             btc_dominance    == Subscript(d, "market_cap_percentage", "btc")
         IN  IF total_market_cap.state = "raised" THEN total_market_cap
             ELSE IF total_24h_volume.state = "raised" THEN total_24h_volume
             ELSE IF btc_dominance.state = "raised" THEN btc_dominance
             ELSE Returns(<<total_market_cap.value, total_24h_volume.value,
                            btc_dominance.value>>)

\* the call at module level, made once when the program starts
fetch_global_data ==
    /\ global_data = Pending
    /\ global_data' = GlobalData(response)
    /\ UNCHANGED response
    /\ UNCHANGED notGlobal

\* a complete answer of the API
GoodResponse ==
    [status_code |-> 200,
     body |-> [valid |-> TRUE,
               obj |-> [k \in {"data"} |-> DataObject([x \in DOMAIN Leaves |-> "full"])]]]

\* the overview as it is once the program has started on a complete answer
OverviewLoaded ==
    /\ response = GoodResponse
    /\ global_data = GlobalData(GoodResponse)

(***************************************************************************)
(* The Lab 5 dashboard.  A frame is a function from column names to        *)
(* series; a series has the dtype pd.read_csv gave it and its values, 0    *)
(* standing for a missing value and 1, 2, ... for the distinct values.     *)
(***************************************************************************)
\* the dtypes pd.api.types.is_numeric_dtype accepts, of those read_csv gives
NumericDTypes == {"int64", "float64", "bool"}

is_numeric_dtype(series) == series.dtype \in NumericDTypes

\* Series.nunique(): the distinct values, the missing ones not counted
nunique(series) ==
    Cardinality({series.values[i] : i \in 1..Len(series.values)} \ {0})

MaxCategories == 20

\* the test written unique_vals < 20
column_type_strict(series) ==
    IF is_numeric_dtype(series) THEN "numeric"
    ELSE IF nunique(series) < MaxCategories THEN "categorical"
    ELSE "numeric"

column_type(series) ==
    IF is_numeric_dtype(series) THEN "numeric"
    ELSE IF nunique(series) <= MaxCategories THEN "categorical"
    ELSE "numeric"

\* DataFrame.empty: no column, or no row
Empty(frame) == DOMAIN frame = {} \/ \A c \in DOMAIN frame : frame[c].values = <<>>

NotRendered == [kind |-> "none", arg |-> <<>>]

\* ui.div(text)
Div(text) == [kind |-> "div", arg |-> <<text>>]

\* ui.HTML of the figure px.<kind> drew of the columns cols
Figure(kind, cols) == [kind |-> kind, arg |-> cols]

\* eda_plot with its first test reading "> 0": never a scatter matrix
EdaPlotFirstNumeric(frame, cols) ==
    IF Empty(frame) \/ cols = <<>> THEN Div("No columns selected.")
    ELSE LET numeric_cols == SelectSeq(cols, LAMBDA c : column_type(frame[c]) = "numeric")
             cat_cols     == SelectSeq(cols, LAMBDA c : column_type(frame[c]) = "categorical")
         IN  IF Len(numeric_cols) > 0 THEN Figure("histogram", <<numeric_cols[1]>>)
             ELSE IF cat_cols # <<>> THEN Figure("bar", <<cat_cols[1]>>)
             ELSE Div("No valid columns to plot.")

\* the body of eda_plot on data = frame and the selection cols
EdaPlot(frame, cols) ==
    IF Empty(frame) \/ cols = <<>> THEN Div("No columns selected.")
    ELSE LET numeric_cols == SelectSeq(cols, LAMBDA c : column_type(frame[c]) = "numeric")
             cat_cols     == SelectSeq(cols, LAMBDA c : column_type(frame[c]) = "categorical")
         IN  IF Len(numeric_cols) > 1 THEN Figure("scatter_matrix", numeric_cols)
             ELSE IF Len(numeric_cols) = 1 THEN Figure("histogram", <<numeric_cols[1]>>)
             ELSE IF cat_cols # <<>> THEN Figure("bar", <<cat_cols[1]>>)
             ELSE Div("No valid columns to plot.")

eda_plot ==
    /\ eda_out = NotRendered
    /\ eda_out' = EdaPlot(uploaded, eda_cols)
    /\ UNCHANGED <<uploaded, eda_cols>>
    /\ UNCHANGED notEda

\* the uploads of the model.  A series of n rows with k distinct values after
\* its first missing rows:
WideRows == 24

MaxSelected == 3

Series(dtype, k, missing, n) ==
    [dtype  |-> dtype,
     values |-> [i \in 1..n |->
                    IF i <= missing \/ k = 0 THEN 0 ELSE ((i - missing - 1) % k) + 1]]

\* the columns of the uploaded file: dtype, distinct values, missing rows
WideColumns ==
    [c \in {"id", "price", "flag", "empty", "grade", "city", "name", "code"} |->
        CASE c = "id"    -> <<"int64", MaxCategories + 2, 0>>
          [] c = "price" -> <<"float64", MaxCategories + 1, 1>>
          [] c = "flag"  -> <<"bool", 2, 0>>
          [] c = "empty" -> <<"float64", 0, 0>>
          [] c = "grade" -> <<"object", 3, 1>>
          [] c = "city"  -> <<"object", MaxCategories, 2>>
          [] c = "name"  -> <<"object", MaxCategories + 1, 0>>
          [] c = "code"  -> <<"object", MaxCategories + 2, 2>>]

\* the file with n rows
Upload(n) ==
    [c \in DOMAIN WideColumns |->
        Series(WideColumns[c][1], WideColumns[c][2], WideColumns[c][3], n)]

\* no file (pd.DataFrame()), a file of a header line only, a file of WideRows
\* rows and one of two rows, in which no column has more than two values
Uploads == {<<>>, Upload(0), Upload(2), Upload(WideRows)}

\* the selections of up to MaxSelected columns of the frame, in any order
Selections(frame) ==
    {sel \in UNION {[1..n -> DOMAIN frame] : n \in 0..MaxSelected} :
        \A i, j \in 1..Len(sel) : i # j => sel[i] # sel[j]}

\* no file has been uploaded and nothing is drawn
NoUpload ==
    /\ uploaded = <<>>
    /\ eda_cols = <<>>
    /\ eda_out = NotRendered

(***************************************************************************)
(* The Lab 5 tutorial app.  The dataset is a sequence of rows, each with   *)
(* its index label, its mpg in tenths (18.5 is 185) and its origin.  A     *)
(* reactive Calc holds no value until it is read, and loses its value when *)
(* an input it read changes.                                               *)
(***************************************************************************)
Rows(pairs) ==
    [i \in 1..Len(pairs) |-> [index |-> i - 1, mpg |-> pairs[i][1], origin |-> pairs[i][2]]]

\* the samples of sns.load_dataset('mpg') the model runs on
Datasets ==
    {Rows(<<<<90, "usa">>, <<149, "usa">>, <<150, "japan">>, <<185, "europe">>,
            <<250, "usa">>, <<251, "japan">>, <<466, "europe">>>>),
     Rows(<<<<150, "usa">>, <<200, "usa">>, <<250, "japan">>>>)}

\* int(data['mpg'].min()) and int(data['mpg'].max()): the ends of the slider
SliderMin(frame) ==
    (CHOOSE m \in {frame[i].mpg : i \in 1..Len(frame)} :
        \A i \in 1..Len(frame) : m <= frame[i].mpg) \div 10

SliderMax(frame) ==
    (CHOOSE m \in {frame[i].mpg : i \in 1..Len(frame)} :
        \A i \in 1..Len(frame) : m >= frame[i].mpg) \div 10

\* sorted(data['origin'].unique()): the boxes of the checkbox group
origin_choices(frame) == {frame[i].origin : i \in 1..Len(frame)}

Invalidated == [valid |-> FALSE, rows |-> <<>>]

Valid(frame) == [valid |-> TRUE, rows |-> frame]

\* df[(df['mpg'] >= lo) & (df['mpg'] <= hi)]
MpgFilter(frame, range) ==
    SelectSeq(frame, LAMBDA row : row.mpg >= 10 * range[1] /\ row.mpg <= 10 * range[2])

\* df[df['origin'].isin(checked)], applied whatever is checked
OriginFilterAlways(frame, checked) ==
    SelectSeq(frame, LAMBDA row : row.origin \in checked)

\* if input.origins(): df = df[df['origin'].isin(input.origins())]
OriginFilter(frame, checked) ==
    IF checked # {} THEN SelectSeq(frame, LAMBDA row : row.origin \in checked)
    ELSE frame

\* the Calc is read (sidebar_plot draws): it runs on a copy of data and keeps
\* the frame it returns
sidebar_filtered_data ==
    /\ ~sidebar.valid
    /\ sidebar' = Valid(OriginFilter(MpgFilter(mpg_data, mpg_range), origins))
    /\ UNCHANGED <<mpg_data, mpg_range, origins>>
    /\ UNCHANGED notSidebar

\* the user drags one handle of the slider by one step
set_mpg_range ==
    /\ \E lo, hi \in SliderMin(mpg_data)..SliderMax(mpg_data) :
          /\ lo <= hi
          /\ \/ lo = mpg_range[1] /\ hi \in {mpg_range[2] - 1, mpg_range[2] + 1}
             \/ hi = mpg_range[2] /\ lo \in {mpg_range[1] - 1, mpg_range[1] + 1}
          /\ mpg_range' = <<lo, hi>>
    /\ sidebar' = Invalidated
    /\ UNCHANGED <<mpg_data, origins>>
    /\ UNCHANGED notSidebar

\* the user checks or unchecks one origin
set_origins ==
    /\ \E o \in origin_choices(mpg_data) :
          origins' = IF o \in origins THEN origins \ {o} ELSE origins \cup {o}
    /\ sidebar' = Invalidated
    /\ UNCHANGED <<mpg_data, mpg_range>>
    /\ UNCHANGED notSidebar

\* the page as app_ui builds it on the dataset frame: the slider at [15, 25],
\* every origin checked
SidebarLayout(frame) ==
    /\ mpg_data = frame
    /\ mpg_range = <<15, 25>>
    /\ origins = origin_choices(frame)
    /\ sidebar = Invalidated

(***************************************************************************)
(* The responses the model feeds to fetch_crypto_data: a price series      *)
(* repeats a shape, optionally on a rising or falling trend, for n rows.   *)
(***************************************************************************)
MaxN == 31

MaxShort == 3

Shapes == {<<1>>, <<0>>, <<1, 2>>, <<3, 1>>, <<0, 1>>, <<2, 0, 1>>, <<1, 1, 4, 2>>,
           <<100, 110, 99>>}

Trends == {-1, 0, 1}

TsKinds == {"daily", "duplicate", "unordered"}

PriceAt(shape, trend, n, i) ==
    shape[((i - 1) % Len(shape)) + 1]
        + (IF trend = 1 THEN i - 1 ELSE IF trend = -1 THEN n - i ELSE 0)

TsAt(kind, n, i) ==
    IF kind = "daily" THEN i
    ELSE IF kind = "duplicate" THEN i \div 2
    ELSE (n - i) \div 2

Body(shape, trend, n, kind) ==
    [k \in {"prices", "total_volumes"} |->
        IF k = "prices"
        THEN [i \in 1..n |-> <<TsAt(kind, n, i), PriceAt(shape, trend, n, i)>>]
        ELSE [i \in 1..n |-> <<TsAt(kind, n, i), 10 * i>>]]

Restrict(f, keys) == [k \in keys |-> f[k]]

Responses ==
    {Body(sh, tr, n, "daily") : sh \in Shapes, tr \in Trends, n \in 0..MaxN}
    \cup {Body(sh, tr, n, k) : sh \in Shapes, tr \in Trends, n \in 0..MaxShort, k \in TsKinds}
    \cup {Restrict(Body(<<1, 2>>, 0, n, "daily"), ks) :
            n \in 0..MaxShort, ks \in {{}, {"prices"}, {"total_volumes"}}}

Init ==
    /\ data \in Responses
    /\ pc = "request"
    /\ df = EmptyFrame
    /\ df_volume = EmptyFrame
    /\ raised = "none"
    /\ calls = <<>>
    /\ Layout
    /\ OverviewLoaded
    /\ NoUpload
    /\ SidebarLayout(<<>>)

Next == fetch_crypto_data

Spec == Init /\ [][Next]_vars

MaxCalls == 3

\* the bodies of a session: tables of 0, 3 and 15 rows, a second 3-row
\* series, and a body without total_volumes
SessionResponses ==
    {Body(<<1, 2>>, 0, n, "daily") : n \in {0, 3, 15}}
    \cup {Body(<<3, 1>>, 1, 3, "daily"), Restrict(Body(<<1, 2>>, 0, 3, "daily"), {"prices"})}

\* update_crypto_charts fires again (the symbol or the time range changed):
\* the next call of fetch_crypto_data reads the body of a new response; df
\* and df_volume stay the frames last returned until that call returns
update_crypto_charts ==
    /\ pc = "done"
    /\ Len(calls) < MaxCalls
    /\ data' \in SessionResponses
    /\ pc' = "request"
    /\ UNCHANGED <<df, df_volume, raised, calls>>
    /\ UNCHANGED notCrypto

\* a session of the dashboard: up to MaxCalls calls, each on one of a few
\* bodies, so that the same body is fetched again after other bodies
InitSession ==
    /\ data \in SessionResponses
    /\ pc = "request"
    /\ df = EmptyFrame
    /\ df_volume = EmptyFrame
    /\ raised = "none"
    /\ calls = <<>>
    /\ Layout
    /\ OverviewLoaded
    /\ NoUpload
    /\ SidebarLayout(<<>>)

NextSession == fetch_crypto_data \/ update_crypto_charts

SpecSession == InitSession /\ [][NextSession]_vars

\* the page with its side panel; no chart is requested
InitPanel ==
    /\ data = <<>>
    /\ pc = "request"
    /\ df = EmptyFrame
    /\ df_volume = EmptyFrame
    /\ raised = "none"
    /\ calls = <<>>
    /\ Layout
    /\ OverviewLoaded
    /\ NoUpload
    /\ SidebarLayout(<<>>)

NextPanel == click \/ run_toggle_collapse

SpecPanel == InitPanel /\ [][NextPanel]_vars

\* the start of the program: the overview is fetched before any callback runs
InitGlobal ==
    /\ data = <<>>
    /\ pc = "request"
    /\ df = EmptyFrame
    /\ df_volume = EmptyFrame
    /\ raised = "none"
    /\ calls = <<>>
    /\ Layout
    /\ response \in GlobalResponses
    /\ global_data = Pending
    /\ NoUpload
    /\ SidebarLayout(<<>>)

NextGlobal == fetch_global_data

SpecGlobal == InitGlobal /\ [][NextGlobal]_vars

\* no chart has been requested of the crypto dashboard
NoChart ==
    /\ data = <<>>
    /\ pc = "request"
    /\ df = EmptyFrame
    /\ df_volume = EmptyFrame
    /\ raised = "none"
    /\ calls = <<>>

\* the Lab 5 dashboard with a file uploaded (or none) and columns selected
InitEda ==
    /\ NoChart
    /\ Layout
    /\ OverviewLoaded
    /\ uploaded \in Uploads
    /\ eda_cols \in Selections(uploaded)
    /\ eda_out = NotRendered
    /\ SidebarLayout(<<>>)

NextEda == eda_plot

SpecEda == InitEda /\ [][NextEda]_vars

\* the Lab 5 tutorial app on one of the datasets
InitSidebar ==
    /\ NoChart
    /\ Layout
    /\ OverviewLoaded
    /\ NoUpload
    /\ \E frame \in Datasets : SidebarLayout(frame)

NextSidebar == sidebar_filtered_data \/ set_mpg_range \/ set_origins

SpecSidebar == InitSidebar /\ [][NextSidebar]_vars

(***************************************************************************)
(* Properties.  Returned: the call has returned the two frames computed    *)
(* from a body holding both keys.  Rows are counted from 1 here: row i of  *)
(* the text, counted from 0, is element i + 1.                             *)
(***************************************************************************)
Returned == pc = "done" /\ raised = "none" /\ {"prices", "total_volumes"} \subseteq DOMAIN data

Columns == {"timestamp", "price", "7-day MA", "30-day MA", "Price Change %",
            "20-day MA", "Std Dev", "Upper Band", "Lower Band", "RSI",
            "12-day EMA", "26-day EMA", "MACD", "Signal Line",
            "MACD Histogram", "Daily Return", "Cumulative Return"}

\* the sum of the input prices of rows lo..hi
RECURSIVE PriceSum(_, _, _)
PriceSum(pairs, lo, hi) ==
    IF lo > hi THEN 0 ELSE PriceSum(pairs, lo, hi - 1) + pairs[hi][2]

\* C1: the table has one row per input point, in the input's order: every
\* column has the input's length, and row i carries the timestamp (as a
\* datetime) and the price of input point i, whatever the timestamps are.
C1_RowsFollowInput ==
    Returned =>
        LET prices == data["prices"]
        IN  /\ DOMAIN df = Columns
            /\ NRows(df) = Len(prices)
            /\ \A c \in Columns : Len(df[c]) = Len(prices)
            /\ \A i \in 1..Len(prices) :
                  /\ df["timestamp"][i] = prices[i][1] * 1000000
                  /\ df["price"][i] = F(prices[i][2])

\* a returned table whose input repeats a timestamp and steps back in time
C1_Witness ==
    /\ Returned
    /\ LET prices == data["prices"]
       IN  /\ Len(prices) >= 3
           /\ \E i, j \in 1..Len(prices) : i < j /\ prices[i][1] = prices[j][1]
           /\ \E i \in 1..(Len(prices) - 1) : prices[i + 1][1] < prices[i][1]
           /\ NRows(df) = Len(prices)

MAWindows == {<<"7-day MA", 7>>, <<"20-day MA", 20>>, <<"30-day MA", 30>>}

\* C2: for w in {7, 20, 30} the w-day moving average is undefined (NaN) at
\* rows i < w-1 and is the arithmetic mean of the w prices ending at row i
\* from row w-1 on; prices 1..10 give 4 at row 6 and NaN at rows 0..5.
C2_MovingAverageIsWindowMean ==
    Returned =>
        LET prices == data["prices"]
        IN  /\ \A cw \in MAWindows : \A i \in 1..Len(prices) :
                  LET ma == df[cw[1]][i]
                      w  == cw[2]
                  IN  IF i < w THEN IsNaN(ma)
                      ELSE /\ IsFinite(ma)
                           /\ ma.n * w = ma.d * PriceSum(prices, i - w + 1, i)
            /\ ([i \in 1..Len(prices) |-> prices[i][2]] = [i \in 1..10 |-> i]
                  => /\ df["7-day MA"][7] = F(4)
                     /\ \A i \in 1..6 : IsNaN(df["7-day MA"][i]))

\* a returned table of more than 30 rows with unequal prices in the last
\* 30-row window, so that all three averages are defined and differ
C2_Witness ==
    /\ Returned
    /\ Len(data["prices"]) > 30
    /\ IsFinite(df["30-day MA"][Len(data["prices"])])
    /\ df["7-day MA"][Len(data["prices"])] # df["30-day MA"][Len(data["prices"])]
    /\ df["20-day MA"][Len(data["prices"])] # df["30-day MA"][Len(data["prices"])]

PositivePrices(pairs) == \A i \in 1..Len(pairs) : pairs[i][2] > 0

\* C3: the cumulative return of the first row (row 0) is 0 for every
\* non-empty price series (stated here for series of positive prices only).
C3_FirstCumulativeReturnIsZero ==
    Returned /\ Len(data["prices"]) >= 1 /\ PositivePrices(data["prices"])
        => df["Cumulative Return"][1] = F(0)

\* what the code returns there: Daily Return is NaN at row 0, cumprod keeps
\* the NaN row as NaN, and NaN - 1 is NaN
FirstCumulativeReturnIsNaN ==
    Returned /\ Len(data["prices"]) >= 1 => IsNaN(df["Cumulative Return"][1])

\* (1 + daily[lo]) * ... * (1 + daily[hi])
RECURSIVE ReturnProduct(_, _, _)
ReturnProduct(daily, lo, hi) ==
    IF lo > hi THEN F(1)
    ELSE FMul(ReturnProduct(daily, lo, hi - 1), FAdd(F(1), daily[hi]))

\* C4: with non-zero prices, at every row i >= 1 the cumulative return is the
\* product of (1 + dailyReturn[k]) over k = 1..i, minus 1, and that is
\* price[i]/price[0] - 1; prices [100, 110, 99] give daily returns +1/10 and
\* -1/10 and the cumulative return -1/100 at row 2.
C4_CumulativeReturnIsPriceRatio ==
    Returned /\ PositivePrices(data["prices"]) =>
        LET prices == data["prices"]
            daily  == df["Daily Return"]
        IN  /\ \A i \in 2..Len(prices) :
                  LET cum == df["Cumulative Return"][i]
                  IN  /\ IsFinite(cum)
                      /\ cum = FSub(ReturnProduct(daily, 2, i), F(1))
                      /\ (cum.n + cum.d) * prices[1][2] = cum.d * prices[i][2]
            /\ ([i \in 1..Len(prices) |-> prices[i][2]] = <<100, 110, 99>>
                  => /\ daily[2] = Norm(1, 10)
                     /\ daily[3] = Norm(-1, 10)
                     /\ df["Cumulative Return"][3] = Norm(-1, 100))

\* the table of the series [100, 110, 99]
C4_Witness ==
    /\ Returned
    /\ [i \in 1..Len(data["prices"]) |-> data["prices"][i][2]] = <<100, 110, 99>>
    /\ df["Cumulative Return"][3] = Norm(-1, 100)

\* no price of rows i-13..i (counted from 1) is below the price of the row
\* before it: every loss of the 14-row window ending at row i is 0
NoDecrease(pairs, i) ==
    \A j \in (i - 13)..i : j = 1 \/ pairs[j][2] >= pairs[j - 1][2]

\* C5: when the 14-row average loss is exactly 0, RSI at that row is 100,
\* whether the average gain is positive or also 0 (a flat window); stated
\* here for series of positive prices only.
C5_ZeroLossGivesRsi100 ==
    Returned /\ PositivePrices(data["prices"]) =>
        \A i \in 14..Len(data["prices"]) :
            NoDecrease(data["prices"], i) => df["RSI"][i] = F(100)

\* what the code returns there: 100 when some price of the window rose
\* (rs is infinite and 100 / (1 + rs) is 0), NaN when the window is flat
\* (rs is 0/0)
ZeroLossRsiIs100OrNaN ==
    Returned =>
        \A i \in 14..Len(data["prices"]) :
            NoDecrease(data["prices"], i) =>
                IF \E j \in (i - 13)..i : j > 1 /\ data["prices"][j][2] > data["prices"][j - 1][2]
                THEN df["RSI"][i] = F(100)
                ELSE IsNaN(df["RSI"][i])

\* every 14-row window of the series holds a price decrease
NonDegenerate(pairs) == \A i \in 14..Len(pairs) : ~NoDecrease(pairs, i)

\* C6: in a series whose every 14-row window holds a price decrease, RSI is a
\* finite number between 0 and 100 at every row where it is defined (not NaN).
C6_RsiBetween0And100 ==
    Returned /\ NonDegenerate(data["prices"]) =>
        \A i \in 1..Len(data["prices"]) :
            LET rsi == df["RSI"][i]
            IN  ~IsNaN(rsi) => IsFinite(rsi) /\ FLe(F(0), rsi) /\ FLe(rsi, F(100))

\* such a series, long enough for RSI to be defined, with an RSI strictly
\* between 0 and 100 in its last row
C6_Witness ==
    /\ Returned
    /\ Len(data["prices"]) > 14
    /\ NonDegenerate(data["prices"])
    /\ LET rsi == df["RSI"][Len(data["prices"])]
       IN  IsFinite(rsi) /\ FLt(F(0), rsi) /\ FLt(rsi, F(100))

\* C7: an empty price series gives an empty indicator table and no error; a
\* body lacking 'prices' or 'total_volumes' gives two empty frames and no
\* error.
C7_EmptyInputsGiveEmptyTables ==
    pc = "done" =>
        /\ {"prices", "total_volumes"} \subseteq DOMAIN data /\ data["prices"] = <<>>
              => /\ raised = "none"
                 /\ DOMAIN df = Columns
                 /\ NRows(df) = 0
                 /\ \A c \in Columns : df[c] = <<>>
        /\ "prices" \notin DOMAIN data \/ "total_volumes" \notin DOMAIN data
              => /\ raised = "none"
                 /\ df = EmptyFrame
                 /\ df_volume = EmptyFrame

\* the call has returned from a body whose price list is empty
C7_Witness ==
    /\ pc = "done"
    /\ {"prices", "total_volumes"} \subseteq DOMAIN data
    /\ data["prices"] = <<>>
    /\ raised = "none"
    /\ DOMAIN df = Columns
    /\ NRows(df) = 0

\* the call has returned two empty frames from a body that has prices but
\* lacks 'total_volumes'
MissingVolumesReturnsEmptyFrames ==
    /\ pc = "done"
    /\ "prices" \in DOMAIN data
    /\ "total_volumes" \notin DOMAIN data
    /\ Len(data["prices"]) > 0
    /\ raised = "none"
    /\ df = EmptyFrame
    /\ df_volume = EmptyFrame

EMAColumns == {<<"12-day EMA", 12>>, <<"26-day EMA", 26>>}

\* C8: the span-12 and span-26 exponential averages are numbers at every row;
\* EMA[0] = price[0], and for i >= 1
\* (span + 1) * EMA[i] = 2 * price[i] + (span - 1) * EMA[i-1].
C8_EmaRecurrence ==
    Returned =>
        LET prices == data["prices"]
        IN  \A cs \in EMAColumns : \A i \in 1..Len(prices) :
                LET ema  == df[cs[1]]
                    span == cs[2]
                IN  /\ ~ScIsNaN(ema[i])
                    /\ i = 1 => ScEq(ema[1], ScOf(prices[1][2]))
                    /\ i > 1 => ScEq(ScMulInt(ema[i], span + 1),
                                     ScAdd(ScOf(2 * prices[i][2]),
                                           ScMulInt(ema[i - 1], span - 1)))

\* a table longer than both spans whose last two averages differ from the
\* last price and from each other
C8_Witness ==
    /\ Returned
    /\ Len(data["prices"]) > 26
    /\ LET n == Len(data["prices"])
       IN  /\ ~ScIsNaN(df["12-day EMA"][n])
           /\ ~ScEq(df["12-day EMA"][n], df["26-day EMA"][n])
           /\ ~ScEq(df["12-day EMA"][n], ScOf(data["prices"][n][2]))

ConstantPrices(pairs) == \A i \in 1..Len(pairs) : pairs[i][2] = pairs[1][2]

\* C9: at every row MACD = EMA12 - EMA26, Signal is the span-9 exponential
\* average of MACD (Signal[0] = MACD[0], 10 * Signal[i] = 2 * MACD[i] +
\* 8 * Signal[i-1]) and Histogram = MACD - Signal; the three are 0 at row 0,
\* and 0 at every row of a constant price series.
C9_MacdSignalHistogram ==
    Returned =>
        LET prices == data["prices"]
            macd   == df["MACD"]
            signal == df["Signal Line"]
            hist   == df["MACD Histogram"]
        IN  \A i \in 1..Len(prices) :
                /\ ScEq(macd[i], ScSub(df["12-day EMA"][i], df["26-day EMA"][i]))
                /\ i = 1 => ScEq(signal[1], macd[1])
                /\ i > 1 => ScEq(ScMulInt(signal[i], 10),
                                 ScAdd(ScMulInt(macd[i], 2), ScMulInt(signal[i - 1], 8)))
                /\ ScEq(hist[i], ScSub(macd[i], signal[i]))
                /\ i = 1 \/ ConstantPrices(prices)
                      => ScIsZero(macd[i]) /\ ScIsZero(signal[i]) /\ ScIsZero(hist[i])

\* a table of more than 9 rows whose last MACD, Signal and Histogram are
\* three different non-zero numbers
C9_Witness ==
    /\ Returned
    /\ Len(data["prices"]) > 9
    /\ LET n == Len(data["prices"])
       IN  /\ ~ScIsZero(df["MACD"][n])
           /\ ~ScIsZero(df["Signal Line"][n])
           /\ ~ScIsZero(df["MACD Histogram"][n])
           /\ ScIsZero(df["MACD"][1])

\* s - x, x - s and k * s for a surd s, a float x and an integer k
SurdMinus(s, x) == Surd(FSub(s.a, x), s.c, s.r)

MinusSurd(x, s) == Surd(FSub(x, s.a), FNeg(s.c), s.r)

SurdTimes(k, s) == Surd(FMul(F(k), s.a), FMul(F(k), s.c), s.r)

\* a + c * sqrt(r) with a, c, r >= 0
SurdNonNegative(s) == FLe(F(0), s.a) /\ FLe(F(0), s.c) /\ FLe(F(0), s.r)

\* C10: at every row i >= 19 the 20-day average is a number and
\* upper - center = center - lower = 2 * stddev >= 0 (so lower <= center <=
\* upper); at every row i < 19 center, upper and lower are all NaN.
C10_BandsSymmetric ==
    Returned =>
        \A i \in 1..Len(data["prices"]) :
            LET center == df["20-day MA"][i]
                upper  == df["Upper Band"][i]
                lower  == df["Lower Band"][i]
                stddev == df["Std Dev"][i]
            IN  IF i < 20 THEN IsNaN(center) /\ IsNaN(upper.a) /\ IsNaN(lower.a)
                ELSE /\ IsFinite(center)
                     /\ SurdMinus(upper, center) = MinusSurd(center, lower)
                     /\ SurdMinus(upper, center) = SurdTimes(2, stddev)
                     /\ SurdNonNegative(stddev)

\* a table of more than 20 rows whose last window has a non-zero standard
\* deviation, so that the three lines differ
C10_Witness ==
    /\ Returned
    /\ Len(data["prices"]) > 20
    /\ LET n == Len(data["prices"])
       IN  /\ df["Std Dev"][n].c # F(0)
           /\ df["Upper Band"][n] # df["Lower Band"][n]
           /\ IsNaN(df["Upper Band"][19].a)

\* (price[i] - price[i-1]) / price[i-1] * 100 in float arithmetic: a zero
\* previous price gives +inf, or NaN when price[i] is zero too
PercentChangeOf(pairs, i) ==
    LET prev == F(pairs[i - 1][2])
        cur  == F(pairs[i][2])
    IN  FMul(FDiv(FSub(cur, prev), prev), F(100))

\* C11: Price Change % is NaN at row 0 and at every row i >= 1 equals
\* (price[i] - price[i-1]) / price[i-1] * 100, a finite number whenever
\* price[i-1] is positive; Daily Return equals Price Change % / 100 at every
\* row and is NaN at exactly the rows where Price Change % is.
C11_PercentChangeAndDailyReturn ==
    Returned =>
        \A i \in 1..Len(data["prices"]) :
            LET pct   == df["Price Change %"][i]
                daily == df["Daily Return"][i]
            IN  /\ i = 1 => IsNaN(pct)
                /\ i > 1 => /\ pct = PercentChangeOf(data["prices"], i)
                            /\ data["prices"][i - 1][2] > 0 => IsFinite(pct)
                /\ daily = FDiv(pct, F(100))
                /\ IsNaN(daily) <=> IsNaN(pct)

\* the prices 1, 2, ..., 10: the change at row 1 is 100 percent, the daily
\* return 1, and the last row is 100/9 percent
C11_Witness ==
    /\ Returned
    /\ Len(data["prices"]) = 10
    /\ \A i \in 1..10 : data["prices"][i][2] = i
    /\ df["Price Change %"][2] = F(100)
    /\ df["Daily Return"][2] = F(1)
    /\ df["Price Change %"][10] = Norm(100, 9)
    /\ IsNaN(df["Daily Return"][1])

\* the sum over rows lo..hi of the price rises (up) or falls (~up), each
\* price[j] - price[j-1] counted once; row 0 (element 1) has no such change
RECURSIVE ChangeSum(_, _, _, _)
ChangeSum(pairs, up, lo, hi) ==
    IF lo > hi THEN 0
    ELSE LET d == IF hi = 1 THEN 0 ELSE pairs[hi][2] - pairs[hi - 1][2]
         IN  ChangeSum(pairs, up, lo, hi - 1)
                 + (IF up /\ d > 0 THEN d ELSE IF ~up /\ d < 0 THEN -d ELSE 0)

\* C13: RSI is NaN at every row i < 13.  At every row i >= 13 the window
\* rows i-13..i is full: RSI is 100 - 100 / (1 + G / L) with G and L the
\* rises and falls summed over that window, the undefined change of row 0
\* counted as 0 in both, so row 13 averages the 13 changes of rows 1..13;
\* the value is a finite number unless G = L = 0, when it is NaN.
C13_RsiFirstDefinedAtRow13 ==
    Returned =>
        \A i \in 1..Len(data["prices"]) :
            LET rsi == df["RSI"][i]
                G   == F(ChangeSum(data["prices"], TRUE, i - 13, i))
                L   == F(ChangeSum(data["prices"], FALSE, i - 13, i))
            IN  IF i < 14 THEN IsNaN(rsi)
                ELSE /\ rsi = FSub(F(100), FDiv(F(100), FAdd(F(1), FDiv(G, L))))
                     /\ IsNaN(rsi) <=> (G = F(0) /\ L = F(0))
                     /\ ~IsNaN(rsi) => IsFinite(rsi)

\* the prices 1, 2, 1, 2, ...: rows 1..13 hold 7 rises and 6 falls, so RSI
\* of row 13 is 100 - 100 / (1 + 7/6) = 700/13; the window of row 14 holds
\* 14 changes, 7 of each, and RSI is 50
C13_Witness ==
    /\ Returned
    /\ Len(data["prices"]) >= 15
    /\ \A i \in 1..15 : data["prices"][i][2] = 2 - (i % 2)
    /\ IsNaN(df["RSI"][13])
    /\ df["RSI"][14] = Norm(700, 13)
    /\ df["RSI"][15] = F(50)

\* C12: fetch_crypto_data is pure and stateless.  Every call leaves the body
\* it read as it was, and the price and volume columns of its tables hold the
\* input values; any two calls of a session that read the same body, however
\* many calls on other bodies lie between them, returned identical results.
C12_CallsArePure ==
    \A i \in 1..Len(calls) :
        /\ calls[i].after = calls[i].input
        /\ Len(calls[i].output) = 2 /\ NRows(calls[i].output[1]) > 0 =>
              LET prices  == calls[i].input["prices"]
                  volumes == calls[i].input["total_volumes"]
              IN  /\ calls[i].output[1]["price"] = [k \in 1..Len(prices) |-> F(prices[k][2])]
                  /\ calls[i].output[2]["volume"] = [k \in 1..Len(volumes) |-> F(volumes[k][2])]
        /\ \A j \in 1..Len(calls) :
              calls[j].input = calls[i].input => calls[j].output = calls[i].output

\* three calls: the first and the third read the same 15-row body, the second
\* another body, and the first and third tables are the same non-empty table
C12_Witness ==
    /\ Len(calls) = 3
    /\ calls[1].input = calls[3].input
    /\ calls[2].input # calls[1].input
    /\ Len(calls[1].output) = 2
    /\ NRows(calls[1].output[1]) = 15
    /\ NRows(calls[2].output[1]) = 3
    /\ calls[3].output = calls[1].output

\* the clicks whose invocation of toggle_collapse has run
Handled == n_clicks - Cardinality({i \in 1..Len(pending) : pending[i] # 0})

\* C14: from the initial state (panel open, n_clicks = 0), when k clicks have
\* each been handled by toggle_collapse the panel is open if and only if k is
\* even; and an invocation with n_clicks = 0 leaves is_open as it was, one
\* with n_clicks > 0 inverts it.
C14_OpenIffEvenClicks ==
    /\ [](is_open <=> (Handled % 2 = 0))
    /\ [][run_toggle_collapse =>
            is_open' = (IF Head(pending) = 0 THEN is_open ELSE ~is_open)]_vars

\* three clicks made and handled, the page-load invocation included: the panel
\* is closed
C14_Witness ==
    /\ n_clicks = 3
    /\ pending = <<>>
    /\ ~is_open

\* the "data" object of the body holds the three leaves that are read
HasAllLeaves(obj) ==
    \A k \in DOMAIN Leaves : k \in DOMAIN obj["data"] /\ Leaves[k][1] \in DOMAIN obj["data"][k]

\* C15: on a response whose body is JSON, fetch_global_data returns
\* (0, 0, 0) whenever the status is not 200 or the body has no "data" key,
\* and otherwise returns the three leaves of the body; it never returns a
\* triple that is only partly filled.
C15_GlobalDataTriple ==
    global_data # Pending /\ response.body.valid =>
        /\ global_data.state = "returned"
        /\ IF response.status_code # 200 \/ "data" \notin DOMAIN response.body.obj
           THEN global_data.value = <<0, 0, 0>>
           ELSE /\ HasAllLeaves(response.body.obj)
                /\ global_data.value = <<response.body.obj["data"]["total_market_cap"]["usd"],
                                         response.body.obj["data"]["total_volume"]["usd"],
                                         response.body.obj["data"]["market_cap_percentage"]["btc"]>>

\* what the code does: the claim's two cases on a body that is JSON and, when
\* it has "data", holds the three leaves; an exception on every other body
\* with status 200; and nothing else, so no partly filled triple
GlobalDataReturnsOrRaises ==
    global_data # Pending =>
        IF response.status_code # 200 THEN global_data = Returns(<<0, 0, 0>>)
        ELSE IF ~response.body.valid THEN global_data = Raises("JSONDecodeError")
        ELSE IF "data" \notin DOMAIN response.body.obj THEN global_data = Returns(<<0, 0, 0>>)
        ELSE IF HasAllLeaves(response.body.obj) THEN global_data = Returns(<<3, 2, 50>>)
        ELSE global_data = Raises("KeyError")

\* the column has a dtype that is not numeric and at most 20 distinct values
\* that are not missing
FewValuesNonNumeric(series) ==
    /\ series.dtype \notin {"int64", "float64", "bool"}
    /\ Cardinality({series.values[i] : i \in 1..Len(series.values)} \ {0}) <= 20

\* C16: column_type says "categorical" exactly of a column whose dtype is not
\* numeric and which has at most 20 distinct non-missing values, and "numeric"
\* of every other column, nothing else; so eda_plot of one selected column
\* of a non-empty frame draws a bar chart in the first case, a histogram in
\* the second.
C16_CategoricalIffFewValuesNonNumeric ==
    eda_out # NotRendered /\ ~Empty(uploaded) =>
        /\ \A c \in DOMAIN uploaded :
              column_type(uploaded[c]) =
                  (IF FewValuesNonNumeric(uploaded[c]) THEN "categorical" ELSE "numeric")
        /\ Len(eda_cols) = 1 =>
              eda_out = Figure(IF FewValuesNonNumeric(uploaded[eda_cols[1]])
                               THEN "bar" ELSE "histogram", eda_cols)

\* "city", of dtype object with exactly 20 values and two missing rows, has
\* been drawn as a bar chart, in a frame where "name" (object, 21 values) and
\* "flag" (bool, 2 values) are numeric
C16_Witness ==
    /\ uploaded = Upload(WideRows)
    /\ eda_cols = <<"city">>
    /\ eda_out = Figure("bar", <<"city">>)
    /\ nunique(uploaded["city"]) = 20
    /\ nunique(uploaded["name"]) = 21
    /\ column_type(uploaded["name"]) = "numeric"
    /\ column_type(uploaded["flag"]) = "numeric"

\* the places in the selection of the columns column_type calls kind
PlacesOf(kind) ==
    {i \in 1..Len(eda_cols) : column_type(uploaded[eda_cols[i]]) = kind}

\* the least member of a non-empty set of numbers
Least(S) == CHOOSE i \in S : \A j \in S : i <= j

\* C17: eda_plot returns "No columns selected." when the data is empty or no
\* column is selected.  Otherwise it draws a scatter matrix of the numeric
\* selected columns when there are more than one, a histogram of the numeric
\* one when there is exactly one, and a bar chart of the first selected
\* categorical column when there is none; it never returns "No valid columns
\* to plot.".
C17_PlotBySelection ==
    eda_out # NotRendered =>
        /\ eda_out # Div("No valid columns to plot.")
        /\ IF Empty(uploaded) \/ Len(eda_cols) = 0
           THEN eda_out = Div("No columns selected.")
           ELSE LET numeric == PlacesOf("numeric")
                    n       == Cardinality(numeric)
                IN  /\ n > 1 => /\ eda_out.kind = "scatter_matrix"
                                /\ Len(eda_out.arg) = n
                                /\ \A i \in 1..Len(eda_cols) :
                                      i \in numeric <=>
                                          \E k \in 1..n : eda_out.arg[k] = eda_cols[i]
                    /\ n = 1 => eda_out = Figure("histogram", <<eda_cols[Least(numeric)]>>)
                    /\ n = 0 => eda_out =
                          Figure("bar", <<eda_cols[Least(PlacesOf("categorical"))]>>)

\* three columns are selected, the numeric "name" between two categorical
\* ones: the histogram is of "name", not of the first column selected
C17_Witness ==
    /\ uploaded = Upload(WideRows)
    /\ eda_cols = <<"grade", "name", "city">>
    /\ eda_out = Figure("histogram", <<"name">>)

\* the row is one sidebar_filtered_data is to return
Wanted(row) ==
    /\ 10 * mpg_range[1] <= row.mpg
    /\ row.mpg <= 10 * mpg_range[2]
    /\ origins # {} => row.origin \in origins

\* C18: sidebar_filtered_data returns exactly the rows of the dataset, each
\* once and in the dataset's order, whose mpg lies in the closed range
\* [lo, hi] of the slider and, when an origin is checked, whose origin is
\* checked; with no origin checked the rows of every origin in the range are
\* returned.  The module-level dataset is never modified.
C18_SidebarRows ==
    /\ [](sidebar.valid =>
            /\ \A i \in 1..Len(mpg_data) :
                  Wanted(mpg_data[i]) <=>
                      \E k \in 1..Len(sidebar.rows) : sidebar.rows[k] = mpg_data[i]
            /\ \A k \in 1..Len(sidebar.rows) :
                  /\ \E i \in 1..Len(mpg_data) : sidebar.rows[k] = mpg_data[i]
                  /\ \A j \in 1..(k - 1) : sidebar.rows[j].index < sidebar.rows[k].index)
    /\ [][mpg_data' = mpg_data]_vars

\* no origin is checked, the range is [15, 25], and the rows returned are the
\* three rows of mpg 15.0, 18.5 and 25.0, of three origins; 14.9 and 25.1 are
\* left out and the dataset still has its seven rows
C18_Witness ==
    /\ sidebar.valid
    /\ origins = {}
    /\ mpg_range = <<15, 25>>
    /\ Len(mpg_data) = 7
    /\ [k \in 1..Len(sidebar.rows) |-> sidebar.rows[k].mpg] = <<150, 185, 250>>
    /\ {sidebar.rows[k].origin : k \in 1..Len(sidebar.rows)} = {"japan", "europe", "usa"}

====
